---- MODULE Spec2Model ----
(***************************************************************************)
(* A model of the files_manager service: the users and files collections   *)
(* of the document store, the token store, the storage directory, the      *)
(* thumbnail queue and the request handlers of the controllers.            *)
(*                                                                         *)
(* A handler is one action per store write it awaits: the reads that come  *)
(* before a write (the token lookup, a findOne) are taken together with    *)
(* the synchronous code that follows them, and a handler that awaits a     *)
(* second store access after a read or a write is split there, so that     *)
(* other requests interleave between the two accesses.                     *)
(***************************************************************************)
EXTENDS Integers, Sequences, FiniteSets, TLC

(***************************************************************************)
(* Bounds of the model.                                                    *)
(***************************************************************************)
MaxUsers == 2
MaxTokens == 2
MaxFiles == 2
MaxSessionFiles == 1
MaxTicks == 2
MaxReqs == 2
MaxJobs == 2

(***************************************************************************)
(* JavaScript values.  A value is a pair <<kind, payload>>, so that the    *)
(* number 0, the string "0", a 24-hex-digit string and an ObjectId are     *)
(* different values, as they are to the document store's matching.         *)
(*   <<"undef", 0>>  undefined (an absent header, field or query)          *)
(*   <<"num", n>>    the number n                                          *)
(*   <<"str", 0>>    the string "0"                                        *)
(*   <<"str", 1>>    a non-empty string that is no ObjectId ("abc")        *)
(*   <<"str", 2>>    the empty string                                      *)
(*   <<"hex", k>>    the 24-hex-digit string of the files ObjectId k       *)
(*   <<"oid", k>>    the k-th ObjectId generated for the files collection  *)
(*   <<"uhex", k>>, <<"uid", k>>  the same for the users collection        *)
(*   <<"tok", k>>    the k-th uuid generated by v4() for a token           *)
(*   <<"bool", b>>   b = 1 for true, 0 for false                           *)
(*   <<"null", 0>>   null                                                  *)
(* Generated ObjectIds never coincide, so the ids of the two collections   *)
(* carry different kinds.                                                  *)
(***************************************************************************)
UNDEF == <<"undef", 0>>
Num(n) == <<"num", n>>
Str0 == <<"str", 0>>
StrAbc == <<"str", 1>>
StrEmpty == <<"str", 2>>
Hex(k) == <<"hex", k>>
Oid(k) == <<"oid", k>>
UHex(k) == <<"uhex", k>>
Uid(k) == <<"uid", k>>
Tok(k) == <<"tok", k>>
JsTrue == <<"bool", 1>>
JsFalse == <<"bool", 0>>
NULL == <<"null", 0>>

\* JavaScript truthiness of a value (the ! and && of the handlers).
Truthy(v) == ~(v \in {UNDEF, NULL, Num(0), StrEmpty, JsFalse})

\* ObjectId.isValid: a 24-hex-digit string or a number; "0", "abc", "" are not.
ObjectIdIsValid(v) == v[1] \in {"hex", "uhex", "num", "oid", "uid"}

\* new ObjectId(v) for a valid v, and v.toString() for an ObjectId.
NewObjectId(v) ==
  CASE v[1] = "hex" -> Oid(v[2])
    [] v[1] = "uhex" -> Uid(v[2])
    [] OTHER -> v

OidToString(v) ==
  CASE v[1] = "oid" -> Hex(v[2])
    [] v[1] = "uid" -> UHex(v[2])
    [] OTHER -> v

\* new ObjectId(null) generates an ObjectId; n tells the generated ones
\* apart.  It is the _id of no document: the store generates the _id of a
\* document it inserts by itself.
GeneratedObjectId(n) == <<"oid", 0 - n>>

\* new ObjectId(v) throws for a v that is neither null nor valid.
NewObjectIdThrows(v) == v # NULL /\ ~ObjectIdIsValid(v)

\* The conversion every handler applies to an id it received:
\* ObjectId.isValid(id) ? new ObjectId(id) : id
ToId(v) == IF ObjectIdIsValid(v) THEN NewObjectId(v) ELSE v

(***************************************************************************)
(* Emails and passwords are strings; a string is the sequence of its       *)
(* ':'-free segments, so <<"p", "q">> is the string "p:q".                 *)
(***************************************************************************)
Emails == {<<"a">>, <<"b">>}
Passwords == {<<"p">>, <<"p", "q">>}

\* sha1 is taken to be collision free.
sha1(s) == <<"sha1", s>>

\* The Basic credentials a client sends for (email, password):
\* base64(email + ":" + password), and what the server gets back from
\* Buffer.from(.., 'base64').toString('ascii').split(':').
BasicCredentials(email, password) == email \o password

\* credentials[i] || '' of getConnect, as a string.
CredentialAt(credentials, i) ==
  IF i <= Len(credentials) THEN <<credentials[i]>> ELSE <<"">>

\* Token lifetime in seconds.
TokenTTL == 60 * 60 * 24
\* The clock advances in steps of half a lifetime.
TickStep == TokenTTL \div 2

VARIABLES
  users,      \* the users collection: a sequence, user k has _id Uid(k)
  files,      \* the files collection: a sequence, file k has _id Oid(k)
  tokens,     \* the token store: a set of [key, value, expiresAt]
  nextToken,  \* the number of uuids v4() has generated for tokens, plus one
  now,        \* the clock of the token store, in seconds
  storage,    \* the storage directory: a set of [path, bytes]
  nextPath,   \* the number of uuids v4() has generated for paths, plus one
  fileQueue,  \* the thumbnail queue: the jobs added and not yet taken
  userQueue,  \* the welcome email queue
  reqs,       \* the requests that await a store access: slot -> record
  res         \* the response the last step sent, NoRes when it sent none

vars == <<users, files, tokens, nextToken, now, storage, nextPath,
          fileQueue, userQueue, reqs, res>>

Idle == [op |-> "idle"]
Slots == 1 .. MaxReqs

NoRes == [op |-> "none", in |-> <<>>, status |-> 0, error |-> "", body |-> <<>>]

Respond(op, in, status, error, body) ==
  [op |-> op, in |-> in, status |-> status, error |-> error, body |-> body]

\* A step is taken once the response of the step before it has gone out.
Ready == res = NoRes

\* A new request takes the first free slot (the slots are interchangeable).
Free(s) == Ready /\ reqs[s] = Idle /\ \A j \in 1 .. (s - 1) : reqs[j] # Idle

Init ==
  /\ users = <<>>
  /\ files = <<>>
  /\ tokens = {}
  /\ nextToken = 1
  /\ now = 0
  /\ storage = {}
  /\ nextPath = 1
  /\ fileQueue = <<>>
  /\ userQueue = <<>>
  /\ reqs = [s \in Slots |-> Idle]
  /\ res = NoRes

(***************************************************************************)
(* The token store (utils/redis): set with expiry, get, del.  An entry is  *)
(* [key, value, expiresAt]; the store drops an entry by itself when its    *)
(* time has come (Tick), so a key that expired is absent to get.           *)
(***************************************************************************)
AuthKey(token) == <<"auth", token>>

RedisHas(key) == \E e \in tokens : e.key = key

RedisGet(key) ==
  IF RedisHas(key) THEN (CHOOSE e \in tokens : e.key = key).value ELSE UNDEF

RedisDel(key) == {e \in tokens : e.key # key}

RedisSet(key, value, ttl) ==
  RedisDel(key) \cup {[key |-> key, value |-> value, expiresAt |-> now + ttl]}

RedisExpire(t) == {e \in tokens : t < e.expiresAt}

(***************************************************************************)
(* The document store: findOne over the users collection.                  *)
(***************************************************************************)
UserIndexes == 1 .. Len(users)

\* usersCollection.findOne({ email }): the first document with that email.
FindUserByEmail(email) ==
  IF \E k \in UserIndexes : users[k].email = email
  THEN CHOOSE k \in UserIndexes :
         /\ users[k].email = email
         /\ \A j \in 1 .. (k - 1) : users[j].email # email
  ELSE 0

\* usersCollection.findOne({ _id }).
FindUserById(id) ==
  IF id[1] = "uid" /\ id[2] \in UserIndexes THEN id[2] ELSE 0

(***************************************************************************)
(* UsersController.postNew: POST /users.                                   *)
(***************************************************************************)
\* The requests that passed their findOne and have their insertOne pending.
PendingInserts == Cardinality({s \in Slots : reqs[s].op = "postNew"})

\* email or password undefined: answered without a store access.
postNewMissing(email, password) ==
  /\ Ready
  /\ email = UNDEF \/ password = UNDEF
  /\ res' = IF email = UNDEF
            THEN Respond("postNew", <<email, password>>, 400, "Missing email", <<>>)
            ELSE Respond("postNew", <<email, password>>, 400, "Missing password", <<>>)
  /\ UNCHANGED <<users, files, tokens, nextToken, now, storage, nextPath,
                 fileQueue, userQueue, reqs>>

\* await usersCollection.findOne({ email }): 'Already exist', or go on to
\* the insert.
postNewFind(s, email, password) ==
  /\ Free(s)
  /\ email # UNDEF /\ password # UNDEF
  /\ IF FindUserByEmail(email) # 0
     THEN /\ res' = Respond("postNew", <<email, password>>, 400, "Already exist", <<>>)
          /\ UNCHANGED reqs
     ELSE /\ Len(users) + PendingInserts < MaxUsers
          /\ reqs' = [reqs EXCEPT ![s] =
                        [op |-> "postNew", email |-> email, password |-> password]]
          /\ res' = NoRes
  /\ UNCHANGED <<users, files, tokens, nextToken, now, storage, nextPath,
                 fileQueue, userQueue>>

\* await usersCollection.insertOne(newUser); userQueue.add; 201.
postNewInsert(s) ==
  /\ Ready
  /\ reqs[s].op = "postNew"
  /\ LET newUser == [email |-> reqs[s].email, password |-> sha1(reqs[s].password)]
         insertedId == Uid(Len(users) + 1)
     IN /\ users' = Append(users, newUser)
        /\ userQueue' = Append(userQueue, [userId |-> insertedId])
        /\ res' = Respond("postNew", <<reqs[s].email, reqs[s].password>>, 201, "",
                          <<insertedId, reqs[s].email>>)
  /\ reqs' = [reqs EXCEPT ![s] = Idle]
  /\ UNCHANGED <<files, tokens, nextToken, now, storage, nextPath, fileQueue>>

(***************************************************************************)
(* AuthController: GET /connect, GET /disconnect, GET /users/me.           *)
(***************************************************************************)
\* No Authorization header.
getConnectNoHeader ==
  /\ Ready
  /\ res' = Respond("getConnect", <<UNDEF>>, 401, "Unauthorized", <<>>)
  /\ UNCHANGED <<users, files, tokens, nextToken, now, storage, nextPath,
                 fileQueue, userQueue, reqs>>

\* getConnect that ends the other sessions of the user.
getConnectSingleSession(clientEmail, clientPassword) ==
  LET credentials == BasicCredentials(clientEmail, clientPassword)
      email == CredentialAt(credentials, 1)
      password == CredentialAt(credentials, 2)
      user == FindUserByEmail(email)
      in == <<clientEmail, clientPassword>>
  IN IF user = 0 \/ users[user].password # sha1(password)
     THEN /\ res' = Respond("getConnect", in, 401, "Unauthorized", <<>>)
          /\ UNCHANGED <<tokens, nextToken>>
     ELSE /\ nextToken <= MaxTokens
          /\ tokens' = {e \in tokens : e.value # OidToString(Uid(user))}
                         \cup {[key |-> AuthKey(Tok(nextToken)),
                                value |-> OidToString(Uid(user)),
                                expiresAt |-> now + TokenTTL]}
          /\ nextToken' = nextToken + 1
          /\ res' = Respond("getConnect", in, 200, "", <<Tok(nextToken)>>)

\* The client logs in as (email, password): it sends their Basic
\* credentials, the handler splits them at ':'.
getConnect(clientEmail, clientPassword) ==
  LET credentials == BasicCredentials(clientEmail, clientPassword)
      email == CredentialAt(credentials, 1)
      password == CredentialAt(credentials, 2)
      user == FindUserByEmail(email)
      in == <<clientEmail, clientPassword>>
  IN IF user = 0 \/ users[user].password # sha1(password)
     THEN /\ res' = Respond("getConnect", in, 401, "Unauthorized", <<>>)
          /\ UNCHANGED <<tokens, nextToken>>
     ELSE /\ nextToken <= MaxTokens
          /\ tokens' = RedisSet(AuthKey(Tok(nextToken)), OidToString(Uid(user)), TokenTTL)
          /\ nextToken' = nextToken + 1
          /\ res' = Respond("getConnect", in, 200, "", <<Tok(nextToken)>>)

Login(clientEmail, clientPassword) ==
  /\ Ready
  /\ getConnect(clientEmail, clientPassword)
  /\ UNCHANGED <<users, files, now, storage, nextPath, fileQueue, userQueue, reqs>>

\* getDisconnect without its del.
getDisconnectKeepsToken(token) ==
  /\ Ready
  /\ IF ~Truthy(token) \/ ~Truthy(RedisGet(AuthKey(token)))
     THEN res' = Respond("getDisconnect", <<token>>, 401, "Unauthorized", <<>>)
     ELSE res' = Respond("getDisconnect", <<token>>, 204, "", <<>>)
  /\ UNCHANGED <<users, files, tokens, nextToken, now, storage, nextPath,
                 fileQueue, userQueue, reqs>>

getDisconnect(token) ==
  /\ Ready
  /\ IF ~Truthy(token) \/ ~Truthy(RedisGet(AuthKey(token)))
     THEN /\ res' = Respond("getDisconnect", <<token>>, 401, "Unauthorized", <<>>)
          /\ UNCHANGED tokens
     ELSE /\ tokens' = RedisDel(AuthKey(token))
          /\ res' = Respond("getDisconnect", <<token>>, 204, "", <<>>)
  /\ UNCHANGED <<users, files, nextToken, now, storage, nextPath,
                 fileQueue, userQueue, reqs>>

\* getMe that sets the key again, with a new lifetime.
getMeRefreshesTTL(token) ==
  /\ Ready
  /\ LET userId == RedisGet(AuthKey(token))
     IN IF ~Truthy(token) \/ ~Truthy(userId)
        THEN /\ res' = Respond("getMe", <<token>>, 401, "Unauthorized", <<>>)
             /\ UNCHANGED tokens
        ELSE /\ res' = Respond("getMe", <<token>>, 200, "",
                               <<userId, users[FindUserById(NewObjectId(userId))].email>>)
             /\ tokens' = RedisSet(AuthKey(token), userId, TokenTTL)
  /\ UNCHANGED <<users, files, nextToken, now, storage, nextPath,
                 fileQueue, userQueue, reqs>>

getMe(token) ==
  /\ Ready
  /\ LET userId == RedisGet(AuthKey(token))
     IN IF ~Truthy(token) \/ ~Truthy(userId)
        THEN res' = Respond("getMe", <<token>>, 401, "Unauthorized", <<>>)
        ELSE res' = Respond("getMe", <<token>>, 200, "",
                            <<userId, users[FindUserById(NewObjectId(userId))].email>>)
  /\ UNCHANGED <<users, files, tokens, nextToken, now, storage, nextPath,
                 fileQueue, userQueue, reqs>>

\* Time passes: the token store drops the entries whose time has come.
Tick ==
  /\ Ready
  /\ now < MaxTicks * TickStep
  /\ now' = now + TickStep
  /\ tokens' = RedisExpire(now')
  /\ res' = NoRes
  /\ UNCHANGED <<users, files, nextToken, storage, nextPath,
                 fileQueue, userQueue, reqs>>

(***************************************************************************)
(* The files collection.  A document is                                    *)
(*   [userId, name, type, isPublic, parentId, localPath]                   *)
(* with localPath = UNDEF for a folder; the k-th document has _id Oid(k).  *)
(***************************************************************************)
FileIndexes == 1 .. Len(files)

\* filesCollection.findOne({ _id }): the index of the document, 0 for null.
FindFileById(id) ==
  IF id[1] = "oid" /\ id[2] \in FileIndexes THEN id[2] ELSE 0

\* filesCollection.findOne({ _id, userId }).
FindFileByIdAndUser(id, userId) ==
  IF id[1] = "oid" /\ id[2] \in FileIndexes /\ files[id[2]].userId = userId
  THEN id[2]
  ELSE 0

\* utils/format: the public fields of a document; localPath is left out.
formatFileDocument(k) ==
  <<OidToString(Oid(k)), OidToString(files[k].userId), files[k].name,
    files[k].type, files[k].isPublic, OidToString(files[k].parentId)>>

\* Paths of the storage directory: `${filesDir}/${uuid}` and
\* `${localPath}_${size}`; size 0 stands for no suffix.
Path(k) == <<"path", k, 0>>
\* A size suffix that leaves the path as it is.
RenditionSamePath(path, size) == path

Rendition(path, size) == <<"path", path[2], size>>

\* fs.existsSync(path) and the bytes at an existing path.
ExistsSync(path) == \E f \in storage : f.path = path
ReadFile(path) == (CHOOSE f \in storage : f.path = path).bytes

\* fs.writeFileSync(path, bytes): creates or replaces the file.
WriteFileSync(st, path, bytes) ==
  {f \in st : f.path # path} \cup {[path |-> path, bytes |-> bytes]}

\* Buffer.from(data, 'base64'): data <<"b64", x>> decodes to <<"bytes", x>>.
B64(x) == <<"b64", x>>
Base64Decode(data) == <<"bytes", data[2]>>

(***************************************************************************)
(* FilesController.postUpload: POST /files.                                *)
(***************************************************************************)
FileTypes == {"folder", "file", "image"}

\* The requests whose insertOne into the files collection is pending.
PendingUploads == Cardinality({s \in Slots : reqs[s].op = "postUpload"})

\* parentId && ObjectId.isValid(parentId) ? new ObjectId(parentId) : parentId
ParentIdToId(parentId) ==
  IF Truthy(parentId) /\ ObjectIdIsValid(parentId)
  THEN NewObjectId(parentId)
  ELSE parentId

\* postUpload with the name checked before the token.
postUploadErrorNameFirst(userId, name, type, data, _parentId) ==
  IF ~Truthy(name) THEN <<400, "Missing name">>
  ELSE IF ~Truthy(userId) THEN <<401, "Unauthorized">>
  ELSE <<0, "">>

\* The checks of postUpload in their order: the first that fails gives the
\* response, <<0, "">> when none fails.
postUploadError(userId, name, type, data, _parentId) ==
  LET parentDocument == FindFileById(_parentId)
  IN CASE ~Truthy(userId) -> <<401, "Unauthorized">>
       [] Truthy(userId) /\ ~Truthy(name) -> <<400, "Missing name">>
       [] Truthy(userId) /\ Truthy(name) /\ type \notin FileTypes ->
            <<400, "Missing type">>
       [] Truthy(userId) /\ Truthy(name) /\ type \in FileTypes
          /\ type # "folder" /\ ~Truthy(data) -> <<400, "Missing data">>
       [] Truthy(userId) /\ Truthy(name) /\ type \in FileTypes
          /\ (type = "folder" \/ Truthy(data))
          /\ Truthy(_parentId) /\ parentDocument = 0 -> <<400, "Parent not found">>
       [] Truthy(userId) /\ Truthy(name) /\ type \in FileTypes
          /\ (type = "folder" \/ Truthy(data))
          /\ Truthy(_parentId) /\ parentDocument # 0
          /\ files[parentDocument].type # "folder" -> <<400, "Parent is not a folder">>
       [] OTHER -> <<0, "">>

\* The document of a folder that is given a path in the storage directory.
NewFileDocumentFolderWithPath(userId, name, type, isPublic, parentId, localPath) ==
  [userId |-> NewObjectId(userId), name |-> name, type |-> type,
   isPublic |-> isPublic, parentId |-> parentId, localPath |-> localPath]

\* The fileDocument postUpload inserts: a folder has no localPath.
NewFileDocument(userId, name, type, isPublic, parentId, localPath) ==
  IF type = "folder"
  THEN [userId |-> NewObjectId(userId), name |-> name, type |-> type,
        isPublic |-> isPublic, parentId |-> parentId, localPath |-> UNDEF]
  ELSE [userId |-> NewObjectId(userId), name |-> name, type |-> type,
        isPublic |-> isPublic, parentId |-> parentId, localPath |-> localPath]

\* parentId === 0 ? parentId : new ObjectId(parentId), where it does not throw.
ParentIdObject(parentId, n) ==
  IF parentId = Num(0) THEN parentId
  ELSE IF parentId = NULL THEN GeneratedObjectId(n)
  ELSE NewObjectId(parentId)

\* postUploadStart with the write of the data before the checks of the
\* parent.
postUploadStartWriteFirst(s, cap, token, name, type, parentIdIn, isPublicIn, data) ==
  LET userId == RedisGet(AuthKey(token))
      parentId == IF parentIdIn = UNDEF THEN Num(0) ELSE parentIdIn
      isPublic == IF isPublicIn = UNDEF THEN JsFalse ELSE isPublicIn
      _parentId == ParentIdToId(parentId)
      err == postUploadError(userId, name, type, data, _parentId)
      in == <<token, name, type, parentIdIn, isPublicIn, data>>
      localPath == Path(nextPath)
      fileDocument ==
        NewFileDocument(userId, name, type, isPublic,
                        IF type = "folder" THEN _parentId
                        ELSE ParentIdObject(parentId, nextPath),
                        localPath)
  IN /\ Free(s)
     /\ IF err[1] # 0
        THEN /\ res' = Respond("postUpload", in, err[1], err[2], <<>>)
             /\ IF /\ err[2] \in {"Parent not found", "Parent is not a folder"}
                   /\ type # "folder" /\ nextPath <= cap
                THEN /\ storage' = WriteFileSync(storage, localPath, Base64Decode(data))
                     /\ nextPath' = nextPath + 1
                ELSE UNCHANGED <<storage, nextPath>>
             /\ UNCHANGED reqs
        ELSE /\ Len(files) + PendingUploads < cap
             /\ IF type = "folder"
                THEN UNCHANGED <<storage, nextPath>>
                ELSE /\ nextPath <= cap
                     /\ storage' = WriteFileSync(storage, localPath, Base64Decode(data))
                     /\ nextPath' = nextPath + 1
             /\ IF type # "folder" /\ parentId # Num(0) /\ NewObjectIdThrows(parentId)
                THEN /\ res' = Respond("postUpload", in, 0, "TypeError", <<>>)
                     /\ UNCHANGED reqs
                ELSE /\ reqs' = [reqs EXCEPT ![s] =
                                   [op |-> "postUpload", token |-> token, in |-> in,
                                    userId |-> userId, parentId |-> parentId,
                                    doc |-> fileDocument]]
                     /\ res' = NoRes
     /\ UNCHANGED <<users, files, tokens, nextToken, now, fileQueue, userQueue>>

\* From the request to the await of insertOne: the token lookup, the
\* checks, the parent's findOne and, for a file or an image, the write of
\* the decoded data to a fresh path of the storage directory.  When
\* new ObjectId(parentId) throws, after the write, the handler ends there:
\* no document is inserted and no response is sent (status 0).  cap bounds
\* the number of documents and of paths the model creates.
postUploadStart(s, cap, token, name, type, parentIdIn, isPublicIn, data) ==
  LET userId == RedisGet(AuthKey(token))
      parentId == IF parentIdIn = UNDEF THEN Num(0) ELSE parentIdIn
      isPublic == IF isPublicIn = UNDEF THEN JsFalse ELSE isPublicIn
      _parentId == ParentIdToId(parentId)
      err == postUploadError(userId, name, type, data, _parentId)
      in == <<token, name, type, parentIdIn, isPublicIn, data>>
      localPath == Path(nextPath)
      fileDocument ==
        NewFileDocument(userId, name, type, isPublic,
                        IF type = "folder" THEN _parentId
                        ELSE ParentIdObject(parentId, nextPath),
                        localPath)
  IN /\ Free(s)
     /\ IF err[1] # 0
        THEN /\ res' = Respond("postUpload", in, err[1], err[2], <<>>)
             /\ UNCHANGED <<storage, nextPath, reqs>>
        ELSE /\ Len(files) + PendingUploads < cap
             /\ IF type = "folder"
                THEN UNCHANGED <<storage, nextPath>>
                ELSE /\ nextPath <= cap
                     /\ storage' = WriteFileSync(storage, localPath, Base64Decode(data))
                     /\ nextPath' = nextPath + 1
             /\ IF type # "folder" /\ parentId # Num(0) /\ NewObjectIdThrows(parentId)
                THEN /\ res' = Respond("postUpload", in, 0, "TypeError", <<>>)
                     /\ UNCHANGED reqs
                ELSE /\ reqs' = [reqs EXCEPT ![s] =
                                   [op |-> "postUpload", token |-> token, in |-> in,
                                    userId |-> userId, parentId |-> parentId,
                                    doc |-> fileDocument]]
                     /\ res' = NoRes
     /\ UNCHANGED <<users, files, tokens, nextToken, now, fileQueue, userQueue>>

\* postUploadInsert with a thumbnail job for every type.
postUploadInsertJobForAll(s) ==
  /\ Ready
  /\ reqs[s].op = "postUpload"
  /\ LET doc == reqs[s].doc
         insertedId == Oid(Len(files) + 1)
     IN /\ files' = Append(files, doc)
        /\ fileQueue' = Append(fileQueue, [fileId |-> insertedId,
                                           userId |-> reqs[s].userId])
        /\ res' = Respond("postUpload", reqs[s].in, 201, "",
                          <<OidToString(insertedId), reqs[s].userId, doc.name,
                            doc.type, doc.isPublic, reqs[s].parentId>>)
  /\ reqs' = [reqs EXCEPT ![s] = Idle]
  /\ UNCHANGED <<users, tokens, nextToken, now, storage, nextPath, userQueue>>

\* await filesCollection.insertOne(fileDocument); a thumbnail job for an
\* image; 201.
postUploadInsert(s) ==
  /\ Ready
  /\ reqs[s].op = "postUpload"
  /\ LET doc == reqs[s].doc
         insertedId == Oid(Len(files) + 1)
     IN /\ files' = Append(files, doc)
        /\ fileQueue' = IF doc.type = "image"
                        THEN Append(fileQueue, [fileId |-> insertedId,
                                                userId |-> reqs[s].userId])
                        ELSE fileQueue
        /\ res' = Respond("postUpload", reqs[s].in, 201, "",
                          <<OidToString(insertedId), reqs[s].userId, doc.name,
                            doc.type, doc.isPublic, reqs[s].parentId>>)
  /\ reqs' = [reqs EXCEPT ![s] = Idle]
  /\ UNCHANGED <<users, tokens, nextToken, now, storage, nextPath, userQueue>>

(***************************************************************************)
(* FilesController.getShow: GET /files/:id.                                *)
(***************************************************************************)
\* getShow with a filter that leaves the owner out.
getShowAnyOwner(token, id) ==
  /\ Ready
  /\ LET userId == RedisGet(AuthKey(token))
         fileDocument == FindFileById(ToId(id))
     IN res' = IF ~Truthy(userId)
               THEN Respond("getShow", <<token, id>>, 401, "Unauthorized", <<>>)
               ELSE IF fileDocument = 0
               THEN Respond("getShow", <<token, id>>, 404, "Not found", <<>>)
               ELSE Respond("getShow", <<token, id>>, 200, "",
                            formatFileDocument(fileDocument))
  /\ UNCHANGED <<users, files, tokens, nextToken, now, storage, nextPath,
                 fileQueue, userQueue, reqs>>

getShow(token, id) ==
  /\ Ready
  /\ LET userId == RedisGet(AuthKey(token))
         fileDocument == FindFileByIdAndUser(ToId(id), ToId(userId))
     IN res' = IF ~Truthy(userId)
               THEN Respond("getShow", <<token, id>>, 401, "Unauthorized", <<>>)
               ELSE IF fileDocument = 0
               THEN Respond("getShow", <<token, id>>, 404, "Not found", <<>>)
               ELSE Respond("getShow", <<token, id>>, 200, "",
                            formatFileDocument(fileDocument))
  /\ UNCHANGED <<users, files, tokens, nextToken, now, storage, nextPath,
                 fileQueue, userQueue, reqs>>

(***************************************************************************)
(* FilesController.getIndex: GET /files.                                   *)
(***************************************************************************)
MAX_PAGE_SIZE == 20

\* A query string of decimal digits.
Digits(n) == <<"digits", n>>

\* /^\d+$/.test(page) ? parseInt(page, 10) : 0, the default page being 0.
ParsePage(page) == IF page[1] = "digits" THEN page[2] ELSE 0

\* $match and $sort: the indexes of the matching documents, ascending.
MatchSorted(_parentId, _userId) ==
  SelectSeq([k \in FileIndexes |-> k],
            LAMBDA k : files[k].parentId = _parentId /\ files[k].userId = _userId)

Skip(seq, n) == SubSeq(seq, n + 1, Len(seq))
Limit(seq, n) == SubSeq(seq, 1, IF Len(seq) < n THEN Len(seq) ELSE n)

getIndexDocuments(userId, parentIdIn, pageIn) ==
  LET parentId == IF parentIdIn = UNDEF THEN Str0 ELSE parentIdIn
      _parentId == ParentIdToId(parentId)
      _userId == ToId(userId)
      _page == ParsePage(pageIn)
      fileDocuments ==
        Limit(Skip(MatchSorted(_parentId, _userId), _page * MAX_PAGE_SIZE),
              MAX_PAGE_SIZE)
  IN [i \in 1 .. Len(fileDocuments) |-> formatFileDocument(fileDocuments[i])]

getIndex(token, parentIdIn, pageIn) ==
  /\ Ready
  /\ LET userId == RedisGet(AuthKey(token))
         in == <<token, parentIdIn, pageIn>>
     IN res' = IF ~Truthy(userId)
               THEN Respond("getIndex", in, 401, "Unauthorized", <<>>)
               ELSE Respond("getIndex", in, 200, "",
                            getIndexDocuments(userId, parentIdIn, pageIn))
  /\ UNCHANGED <<users, files, tokens, nextToken, now, storage, nextPath,
                 fileQueue, userQueue, reqs>>

(***************************************************************************)
(* FilesController.putPublish and putUnpublish.                            *)
(***************************************************************************)
\* filesCollection.updateOne({ _id, userId }, { $set: { isPublic } }): the
\* index of the matched document (0 when matchedCount is 0).
UpdateFilterMatchAnyOwner(_id, _userId) == FindFileById(_id)

UpdateFilterMatch(_id, _userId) == FindFileByIdAndUser(_id, _userId)

SetIsPublic(k, value) == [files EXCEPT ![k].isPublic = value]

\* From the request to the await of the findOne that follows the update.
putPublish(s, token, id) ==
  LET userId == RedisGet(AuthKey(token))
      _id == ToId(id)
      matched == UpdateFilterMatch(_id, ToId(userId))
  IN /\ Free(s)
     /\ IF ~Truthy(userId)
        THEN /\ res' = Respond("putPublish", <<token, id>>, 401, "Unauthorized", <<>>)
             /\ UNCHANGED <<files, reqs>>
        ELSE IF matched = 0
        THEN /\ res' = Respond("putPublish", <<token, id>>, 404, "Not found", <<>>)
             /\ UNCHANGED <<files, reqs>>
        ELSE /\ files' = SetIsPublic(matched, JsTrue)
             /\ reqs' = [reqs EXCEPT ![s] =
                           [op |-> "putPublish", token |-> token, in |-> <<token, id>>,
                            userId |-> userId, _id |-> _id]]
             /\ res' = NoRes
     /\ UNCHANGED <<users, tokens, nextToken, now, storage, nextPath,
                    fileQueue, userQueue>>

\* putUnpublish with the update of putPublish.
putUnpublishSetsTrue(s, token, id) ==
  LET userId == RedisGet(AuthKey(token))
      _id == ToId(id)
      matched == FindFileByIdAndUser(_id, ToId(userId))
  IN /\ Free(s)
     /\ IF ~Truthy(userId)
        THEN /\ res' = Respond("putUnpublish", <<token, id>>, 401, "Unauthorized", <<>>)
             /\ UNCHANGED <<files, reqs>>
        ELSE IF matched = 0
        THEN /\ res' = Respond("putUnpublish", <<token, id>>, 404, "Not found", <<>>)
             /\ UNCHANGED <<files, reqs>>
        ELSE /\ files' = [files EXCEPT ![matched].isPublic = JsTrue]
             /\ reqs' = [reqs EXCEPT ![s] =
                           [op |-> "putUnpublish", token |-> token, in |-> <<token, id>>,
                            userId |-> userId, _id |-> _id]]
             /\ res' = NoRes
     /\ UNCHANGED <<users, tokens, nextToken, now, storage, nextPath,
                    fileQueue, userQueue>>

putUnpublish(s, token, id) ==
  LET userId == RedisGet(AuthKey(token))
      _id == ToId(id)
      matched == UpdateFilterMatch(_id, ToId(userId))
  IN /\ Free(s)
     /\ IF ~Truthy(userId)
        THEN /\ res' = Respond("putUnpublish", <<token, id>>, 401, "Unauthorized", <<>>)
             /\ UNCHANGED <<files, reqs>>
        ELSE IF matched = 0
        THEN /\ res' = Respond("putUnpublish", <<token, id>>, 404, "Not found", <<>>)
             /\ UNCHANGED <<files, reqs>>
        ELSE /\ files' = SetIsPublic(matched, JsFalse)
             /\ reqs' = [reqs EXCEPT ![s] =
                           [op |-> "putUnpublish", token |-> token, in |-> <<token, id>>,
                            userId |-> userId, _id |-> _id]]
             /\ res' = NoRes
     /\ UNCHANGED <<users, tokens, nextToken, now, storage, nextPath,
                    fileQueue, userQueue>>

\* await filesCollection.findOne({ _id: updateFilter._id }); 200 with the
\* document as it is now.
putPublishRespond(s) ==
  /\ Ready
  /\ reqs[s].op \in {"putPublish", "putUnpublish"}
  /\ res' = Respond(reqs[s].op, reqs[s].in, 200, "",
                    formatFileDocument(FindFileById(reqs[s]._id)))
  /\ reqs' = [reqs EXCEPT ![s] = Idle]
  /\ UNCHANGED <<users, files, tokens, nextToken, now, storage, nextPath,
                 fileQueue, userQueue>>

(***************************************************************************)
(* FilesController.getFile: GET /files/:id/data.                           *)
(***************************************************************************)
\* IMG_SIZES with a size that is not a rendition's.
IMG_SIZESWith300 == {Digits(500), Digits(250), Digits(100), Digits(300)}

IMG_SIZES == {Digits(500), Digits(250), Digits(100)}

\* The path of the original for every size.
SizedPathIgnoresSize(filePath, size) == filePath

\* `${filePath}_${size}` for a size of IMG_SIZES.
SizedPath(filePath, size) == Rendition(filePath, size[2])

\* getFile with the folder check before the checks of visibility.
getFileResponseFolderFirst(token, id, size) ==
  LET userId == RedisGet(AuthKey(token))
      in == <<token, id, size>>
      k == FindFileById(ToId(id))
  IN IF k = 0
     THEN Respond("getFile", in, 404, "Not found", <<>>)
     ELSE IF files[k].type = "folder"
     THEN Respond("getFile", in, 400, "A folder doesn't have content", <<>>)
     ELSE IF ~Truthy(files[k].isPublic) /\ OidToString(files[k].userId) # userId
     THEN Respond("getFile", in, 404, "Not found", <<>>)
     ELSE IF ~ExistsSync(files[k].localPath)
     THEN Respond("getFile", in, 404, "Not found", <<>>)
     ELSE Respond("getFile", in, 200, "", <<ReadFile(files[k].localPath)>>)

getFileResponse(token, id, size) ==
  LET userId == RedisGet(AuthKey(token))
      in == <<token, id, size>>
      k == FindFileById(ToId(id))
      filePath == IF files[k].type = "image" /\ size \in IMG_SIZES
                  THEN SizedPath(files[k].localPath, size)
                  ELSE files[k].localPath
  IN IF k = 0
     THEN Respond("getFile", in, 404, "Not found", <<>>)
     ELSE IF ~Truthy(files[k].isPublic) /\ ~Truthy(userId)
     THEN Respond("getFile", in, 404, "Not found", <<>>)
     ELSE IF ~Truthy(files[k].isPublic) /\ OidToString(files[k].userId) # userId
     THEN Respond("getFile", in, 404, "Not found", <<>>)
     ELSE IF files[k].type = "folder"
     THEN Respond("getFile", in, 400, "A folder doesn't have content", <<>>)
     ELSE IF ~ExistsSync(filePath)
     THEN Respond("getFile", in, 404, "Not found", <<>>)
     ELSE Respond("getFile", in, 200, "", <<ReadFile(filePath)>>)

getFile(token, id, size) ==
  /\ Ready
  /\ res' = getFileResponse(token, id, size)
  /\ UNCHANGED <<users, files, tokens, nextToken, now, storage, nextPath,
                 fileQueue, userQueue, reqs>>

(***************************************************************************)
(* worker.js: the consumer of the thumbnail queue.                         *)
(***************************************************************************)
\* The widths of the renditions, in the order they are generated and written.
Widths == <<100, 250, 500>>

\* imageThumbnail whose result differs when the rendition is already there.
imageThumbnailOfRendition(path, width) ==
  IF ExistsSync(Rendition(path, width))
  THEN <<"thumbnail", ReadFile(path)[2] + 1, width>>
  ELSE <<"thumbnail", ReadFile(path)[2], width>>

\* imageThumbnail(path, { width }): a rendition of the bytes at path.
imageThumbnail(path, width) == <<"thumbnail", ReadFile(path)[2], width>>

\* The lookup of workerTake without the userId of the job.
workerFindFileAnyUser(job) == FindFileById(ToId(job.fileId))

\* findOne({ _id, userId: _userId }) for the fileId and userId of a job.
workerFindFile(job) == FindFileByIdAndUser(ToId(job.fileId), ToId(job.userId))

\* A job is taken from the queue: its validation and the lookup of its
\* file, up to the first await of imageThumbnail.  A job that throws is
\* failed by the queue: res tells the error it threw, with status 0.
workerTake(s) ==
  /\ Free(s)
  /\ fileQueue # <<>>
  /\ LET job == Head(fileQueue)
         file == workerFindFile(job)
     IN IF \/ ~Truthy(job.fileId)
           \/ ~Truthy(job.userId)
           \/ file = 0
           \/ ~ExistsSync(files[file].localPath)
        THEN /\ UNCHANGED reqs
             /\ res' = Respond("fileQueue.process", <<job.fileId, job.userId>>, 0,
                               IF ~Truthy(job.fileId) THEN "Missing fileId"
                               ELSE IF ~Truthy(job.userId) THEN "Missing userId"
                               ELSE "File not found", <<>>)
        ELSE /\ reqs' = [reqs EXCEPT ![s] =
                           [op |-> "thumbnail", localPath |-> files[file].localPath,
                            thumbnails |-> <<>>]]
             /\ res' = NoRes
  /\ fileQueue' = Tail(fileQueue)
  /\ UNCHANGED <<users, files, tokens, nextToken, now, storage, nextPath, userQueue>>

\* workerGenerate that writes each rendition as soon as it is generated.
workerGenerateAndWrite(s) ==
  /\ Ready
  /\ reqs[s].op = "thumbnail"
  /\ Len(reqs[s].thumbnails) < Len(Widths)
  /\ ExistsSync(reqs[s].localPath)
  /\ LET localPath == reqs[s].localPath
         width == Widths[Len(reqs[s].thumbnails) + 1]
     IN /\ reqs' = [reqs EXCEPT ![s].thumbnails =
                      Append(reqs[s].thumbnails, imageThumbnail(localPath, width))]
        /\ storage' = WriteFileSync(storage, Rendition(localPath, width),
                                    imageThumbnail(localPath, width))
  /\ res' = NoRes
  /\ UNCHANGED <<users, files, tokens, nextToken, now, nextPath, fileQueue, userQueue>>

\* One await of imageThumbnail resolves: the next rendition is generated
\* from the file at localPath and kept in memory.
workerGenerate(s) ==
  /\ Ready
  /\ reqs[s].op = "thumbnail"
  /\ Len(reqs[s].thumbnails) < Len(Widths)
  /\ ExistsSync(reqs[s].localPath)
  /\ LET localPath == reqs[s].localPath
         width == Widths[Len(reqs[s].thumbnails) + 1]
     IN reqs' = [reqs EXCEPT ![s].thumbnails =
                   Append(reqs[s].thumbnails, imageThumbnail(localPath, width))]
  /\ res' = NoRes
  /\ UNCHANGED <<users, files, tokens, nextToken, now, storage, nextPath,
                 fileQueue, userQueue>>

\* workerWrite without the rendition of width 250.
workerWriteWithout250(s) ==
  /\ Ready
  /\ reqs[s].op = "thumbnail"
  /\ Len(reqs[s].thumbnails) = Len(Widths)
  /\ LET localPath == reqs[s].localPath
         thumbnail100 == reqs[s].thumbnails[1]
         thumbnail500 == reqs[s].thumbnails[3]
     IN storage' =
          WriteFileSync(
            WriteFileSync(storage, Rendition(localPath, 100), thumbnail100),
            Rendition(localPath, 500), thumbnail500)
  /\ reqs' = [reqs EXCEPT ![s] = Idle]
  /\ res' = Respond("fileQueue.process", <<reqs[s].localPath>>, 0, "", <<"completed">>)
  /\ UNCHANGED <<users, files, tokens, nextToken, now, nextPath, fileQueue, userQueue>>

\* The three renditions have been generated: they are written, one after
\* the other without an await, and the job completes: res tells its result.
workerWrite(s) ==
  /\ Ready
  /\ reqs[s].op = "thumbnail"
  /\ Len(reqs[s].thumbnails) = Len(Widths)
  /\ LET localPath == reqs[s].localPath
         thumbnail100 == reqs[s].thumbnails[1]
         thumbnail250 == reqs[s].thumbnails[2]
         thumbnail500 == reqs[s].thumbnails[3]
     IN storage' =
          WriteFileSync(
            WriteFileSync(
              WriteFileSync(storage, Rendition(localPath, 100), thumbnail100),
              Rendition(localPath, 250), thumbnail250),
            Rendition(localPath, 500), thumbnail500)
  /\ reqs' = [reqs EXCEPT ![s] = Idle]
  /\ res' = Respond("fileQueue.process", <<reqs[s].localPath>>, 0, "", <<"completed">>)
  /\ UNCHANGED <<users, files, tokens, nextToken, now, nextPath, fileQueue, userQueue>>

\* An await of imageThumbnail rejects: the job fails before any write.
workerFail(s) ==
  /\ Ready
  /\ reqs[s].op = "thumbnail"
  /\ Len(reqs[s].thumbnails) < Len(Widths)
  /\ reqs' = [reqs EXCEPT ![s] = Idle]
  /\ res' = Respond("fileQueue.process", <<reqs[s].localPath>>, 0, "imageThumbnail", <<>>)
  /\ UNCHANGED <<users, files, tokens, nextToken, now, storage, nextPath,
                 fileQueue, userQueue>>

\* The n-th writeFileSync throws (the directory is full, or not writable):
\* the renditions before the n-th are written and the job fails.
workerWriteFails(s, n) ==
  /\ Ready
  /\ reqs[s].op = "thumbnail"
  /\ Len(reqs[s].thumbnails) = Len(Widths)
  /\ LET localPath == reqs[s].localPath
         written == {[path |-> Rendition(localPath, Widths[i]),
                      bytes |-> reqs[s].thumbnails[i]] : i \in 1 .. (n - 1)}
     IN storage' = {f \in storage : \A w \in written : w.path # f.path} \cup written
  /\ reqs' = [reqs EXCEPT ![s] = Idle]
  /\ res' = Respond("fileQueue.process", <<reqs[s].localPath>>, 0, "writeFileSync", <<>>)
  /\ UNCHANGED <<users, files, tokens, nextToken, now, nextPath, fileQueue, userQueue>>

(***************************************************************************)
(* The surroundings of the worker.  The thumbnail queue is a named queue   *)
(* of the queue server, to which any producer can add a job or deliver one *)
(* again, and the storage directory (by default /tmp/file_manager) is a    *)
(* directory of the file system, from which a file can be removed.         *)
(***************************************************************************)
\* The job data the worker is tried with.
JobInputs ==
  {[fileId |-> UNDEF, userId |-> UHex(1)],
   [fileId |-> Hex(1), userId |-> UNDEF],
   [fileId |-> Hex(1), userId |-> UHex(1)],
   [fileId |-> Hex(1), userId |-> UHex(2)],
   [fileId |-> Hex(2), userId |-> UHex(1)]}

\* A job is added to the thumbnail queue.
fileQueueAdd(job) ==
  /\ Ready
  /\ Len(fileQueue) < MaxJobs
  /\ fileQueue' = Append(fileQueue, job)
  /\ res' = NoRes
  /\ UNCHANGED <<users, files, tokens, nextToken, now, storage, nextPath,
                 userQueue, reqs>>

\* The file at a path is removed from the storage directory.
storageRemove(path) ==
  /\ Ready
  /\ ExistsSync(path)
  /\ storage' = {f \in storage : f.path # path}
  /\ res' = NoRes
  /\ UNCHANGED <<users, files, tokens, nextToken, now, nextPath,
                 fileQueue, userQueue, reqs>>

(***************************************************************************)
(* AppController.getStatus: GET /status.  The handler asks the two clients *)
(* whether they are connected (dbClient.isAlive is isConnected() of the    *)
(* driver, redisClient.isAlive the connection flag of the token store),    *)
(* which the environment decides.  It responds {redis: true, db: true}     *)
(* when both are, and has no other branch: in the other cases it returns   *)
(* without a response (status 0).  The body is <<redis, db>>.              *)
(***************************************************************************)
Bool(b) == IF b THEN JsTrue ELSE JsFalse

getStatus(dbIsAlive, redisIsAlive) ==
  /\ Ready
  /\ res' = IF dbIsAlive /\ redisIsAlive
            THEN Respond("getStatus", <<Bool(dbIsAlive), Bool(redisIsAlive)>>,
                         200, "", <<JsTrue, JsTrue>>)
            ELSE Respond("getStatus", <<Bool(dbIsAlive), Bool(redisIsAlive)>>,
                         0, "", <<>>)
  /\ UNCHANGED <<users, files, tokens, nextToken, now, storage, nextPath,
                 fileQueue, userQueue, reqs>>

(***************************************************************************)
(* What clients send.                                                      *)
(***************************************************************************)
TokenInputs == {UNDEF} \cup {Tok(k) : k \in 1 .. MaxTokens}
IdInputs == {Hex(k) : k \in 1 .. MaxFiles} \cup {StrAbc}
ParentIdInputs == {UNDEF, Str0} \cup {Hex(k) : k \in 1 .. MaxFiles - 1}
ListParentInputs == {UNDEF, Str0, Hex(1)}
PageInputs == {UNDEF, Digits(1)}
SizeInputs == {UNDEF, Digits(250)}
AllSizeInputs == {UNDEF} \cup IMG_SIZES

\* The bodies of POST /files: <<name, type, parentId, isPublic, data>>.
\* A node of each type at the root and under each parentId, a public file,
\* and for each check on name, type and data a body that fails it.
UploadBodies ==
  {<<StrAbc, ty, pid, UNDEF, IF ty = "folder" THEN UNDEF ELSE B64(1)>> :
     ty \in FileTypes, pid \in ParentIdInputs \ {Str0}}
  \cup {<<StrAbc, "file", UNDEF, JsTrue, B64(1)>>,
        <<StrAbc, "folder", Str0, UNDEF, UNDEF>>,
        <<UNDEF, "file", UNDEF, UNDEF, B64(1)>>,
        <<StrAbc, "other", UNDEF, UNDEF, B64(1)>>,
        <<StrAbc, "image", UNDEF, UNDEF, UNDEF>>,
        <<UNDEF, "other", Str0, UNDEF, UNDEF>>}

\* The bodies the sessions are tried with: a folder, a file and an image at
\* the root, and the bodies that fail a check.
SessionBodies ==
  {<<StrAbc, "folder", UNDEF, UNDEF, UNDEF>>,
   <<StrAbc, "file", UNDEF, UNDEF, B64(1)>>,
   <<StrAbc, "image", UNDEF, JsTrue, B64(1)>>,
   <<UNDEF, "file", UNDEF, UNDEF, B64(1)>>,
   <<StrAbc, "other", UNDEF, UNDEF, B64(1)>>,
   <<StrAbc, "image", UNDEF, UNDEF, UNDEF>>,
   <<StrAbc, "file", Str0, UNDEF, B64(1)>>}

\* The bodies the uploads are tried with: a node of each type at the root
\* and under the first node, a file and a public image with other data, a folder and a
\* file with parentId null, and a folder with parentId "0".
HierarchyBodies ==
  {<<StrAbc, ty, pid, UNDEF, IF ty = "folder" THEN UNDEF ELSE B64(1)>> :
     ty \in FileTypes, pid \in {UNDEF, Hex(1)}}
  \cup {<<StrAbc, "file", UNDEF, UNDEF, B64(2)>>,
        <<StrAbc, "image", UNDEF, JsTrue, B64(2)>>,
        <<StrAbc, "folder", NULL, UNDEF, UNDEF>>,
        <<StrAbc, "file", NULL, UNDEF, B64(1)>>,
        <<StrAbc, "folder", Str0, UNDEF, UNDEF>>}

(***************************************************************************)
(* The steps of the system.                                                *)
(***************************************************************************)
RegisterStep ==
  \/ \E e \in Emails \cup {UNDEF}, p \in Passwords \cup {UNDEF} : postNewMissing(e, p)
  \/ \E s \in Slots, e \in Emails, p \in Passwords : postNewFind(s, e, p)
  \/ \E s \in Slots : postNewInsert(s)

AuthStep ==
  \/ getConnectNoHeader
  \/ \E e \in Emails, p \in Passwords : Login(e, p)
  \/ \E t \in TokenInputs : getDisconnect(t)
  \/ \E t \in TokenInputs : getMe(t)
  \/ Tick

UploadStep(cap, bodies) ==
  \/ \E s \in Slots, t \in TokenInputs, b \in bodies :
       postUploadStart(s, cap, t, b[1], b[2], b[3], b[4], b[5])
  \/ \E s \in Slots : postUploadInsert(s)

FilesStep(ids, parents, pages, sizes) ==
  \/ \E t \in TokenInputs, id \in ids : getShow(t, id)
  \/ \E t \in TokenInputs, pid \in parents, pg \in pages : getIndex(t, pid, pg)
  \/ \E s \in Slots, t \in TokenInputs, id \in ids : putPublish(s, t, id)
  \/ \E s \in Slots, t \in TokenInputs, id \in ids : putUnpublish(s, t, id)
  \/ \E s \in Slots : putPublishRespond(s)
  \/ \E t \in TokenInputs, id \in ids, sz \in sizes : getFile(t, id, sz)

ReadStep(ids, sizes) ==
  \E t \in TokenInputs, id \in ids, sz \in sizes : getFile(t, id, sz)

WorkerStep ==
  \/ \E s \in Slots : workerTake(s)
  \/ \E s \in Slots : workerGenerate(s)
  \/ \E s \in Slots : workerWrite(s)
  \/ \E s \in Slots : workerFail(s)

StatusStep == \E dbIsAlive \in BOOLEAN, redisIsAlive \in BOOLEAN :
                getStatus(dbIsAlive, redisIsAlive)

\* The response of the last step has gone out to its client.
Sent ==
  /\ res # NoRes
  /\ res' = NoRes
  /\ UNCHANGED <<users, files, tokens, nextToken, now, storage, nextPath,
                 fileQueue, userQueue, reqs>>

(***************************************************************************)
(* Spec: registration, sessions and the status check, from the empty       *)
(* system.  A step that                                                    *)
(* sends a response is followed by Sent (every other step waits for        *)
(* Ready), so that res is the response of the step that led to the state.  *)
(***************************************************************************)
Next == RegisterStep \/ AuthStep \/ StatusStep \/ Sent

Spec == Init /\ [][Next]_vars

(***************************************************************************)
(* SpecSessions: sessions and the protected operations.  It starts in a    *)
(* state Spec reaches, the two users a and b registered and nobody logged  *)
(* in, and leaves the registration out.                                    *)
(***************************************************************************)
RegisteredUsers ==
  /\ users = <<[email |-> <<"a">>, password |-> sha1(<<"p">>)],
               [email |-> <<"b">>, password |-> sha1(<<"p">>)]>>
  /\ userQueue = <<[userId |-> Uid(1)], [userId |-> Uid(2)]>>

InitSessions ==
  /\ RegisteredUsers
  /\ files = <<>>
  /\ tokens = {}
  /\ nextToken = 1
  /\ now = 0
  /\ storage = {}
  /\ nextPath = 1
  /\ fileQueue = <<>>
  /\ reqs = [s \in Slots |-> Idle]
  /\ res = NoRes

NextSessions ==
  \/ AuthStep
  \/ UploadStep(MaxSessionFiles, SessionBodies)
  \/ FilesStep({Hex(1), StrAbc}, {UNDEF}, {UNDEF}, {UNDEF})
  \/ WorkerStep
  \/ Sent

SpecSessions == InitSessions /\ [][NextSessions]_vars

(***************************************************************************)
(* SpecFiles: the files of two users.  It starts in a state SpecSessions   *)
(* reaches, a logged in as Tok(1) and b as Tok(2), and leaves the sessions *)
(* out: an invalid token is the missing one.                               *)
(***************************************************************************)
InitFiles ==
  /\ RegisteredUsers
  /\ files = <<>>
  /\ tokens = {[key |-> AuthKey(Tok(k)), value |-> UHex(k), expiresAt |-> TokenTTL] :
                 k \in 1 .. 2}
  /\ nextToken = 3
  /\ now = 0
  /\ storage = {}
  /\ nextPath = 1
  /\ fileQueue = <<>>
  /\ reqs = [s \in Slots |-> Idle]
  /\ res = NoRes

NextFiles ==
  \/ UploadStep(MaxFiles, UploadBodies)
  \/ FilesStep(IdInputs, ListParentInputs, PageInputs, SizeInputs)
  \/ WorkerStep
  \/ Sent

SpecFiles == InitFiles /\ [][NextFiles]_vars

(***************************************************************************)
(* SpecUploads: the uploads of two users, the thumbnail worker and the     *)
(* reads of content.  It starts as SpecFiles does.                         *)
(***************************************************************************)
NextUploads ==
  \/ UploadStep(MaxFiles, HierarchyBodies)
  \/ ReadStep(IdInputs, AllSizeInputs)
  \/ WorkerStep
  \/ Sent

SpecUploads == InitFiles /\ [][NextUploads]_vars

(***************************************************************************)
(* SpecCreate: POST /files with every combination of a token, a name, a    *)
(* type, data and a parentId, present or not, valid or not.  It starts as  *)
(* SpecFiles does.                                                         *)
(***************************************************************************)
CreateBodies ==
  {<<name, ty, pid, UNDEF, data>> :
     name \in {UNDEF, StrAbc}, ty \in FileTypes \cup {"other"},
     pid \in {UNDEF, Hex(1), NULL, StrEmpty}, data \in {UNDEF, B64(1)}}

NextCreate == UploadStep(MaxFiles, CreateBodies) \/ Sent

SpecCreate == InitFiles /\ [][NextCreate]_vars

(***************************************************************************)
(* SpecContent: GET /files/:id/data of folders, files and images, public   *)
(* and private, with and without a size, the size one of the renditions'   *)
(* or another, while the worker writes the renditions.  It starts as       *)
(* SpecFiles does.                                                         *)
(***************************************************************************)
ContentBodies ==
  {<<StrAbc, "folder", UNDEF, JsTrue, UNDEF>>,
   <<StrAbc, "folder", UNDEF, UNDEF, UNDEF>>,
   <<StrAbc, "file", UNDEF, UNDEF, B64(1)>>,
   <<StrAbc, "image", UNDEF, UNDEF, B64(2)>>,
   <<StrAbc, "image", UNDEF, JsTrue, B64(2)>>}

ContentSizes == {UNDEF, Digits(100), Digits(250), Digits(300), StrAbc}

NextContent ==
  \/ UploadStep(MaxFiles, ContentBodies)
  \/ ReadStep(IdInputs, ContentSizes)
  \/ WorkerStep
  \/ Sent

SpecContent == InitFiles /\ [][NextContent]_vars

(***************************************************************************)
(* SpecThumbnails: an upload and the worker when thumbnail generation does *)
(* not fail (no workerFail).  The worker is a process of its own: the      *)
(* queue hands a waiting job to it and its awaits resolve whatever the     *)
(* server does, and a response that is going out does go out.  A step of   *)
(* the worker is disabled while a response is going out, so its fairness   *)
(* is strong.                                                              *)
(***************************************************************************)
ThumbnailBodies ==
  {<<StrAbc, "image", UNDEF, UNDEF, B64(1)>>,
   <<StrAbc, "image", UNDEF, JsTrue, B64(2)>>,
   <<StrAbc, "file", UNDEF, UNDEF, B64(1)>>}

WorkerTakes == \E s \in Slots : workerTake(s)
WorkerGenerates == \E s \in Slots : workerGenerate(s)
WorkerWrites == \E s \in Slots : workerWrite(s)

NextThumbnails ==
  \/ UploadStep(MaxSessionFiles, ThumbnailBodies)
  \/ ReadStep({Hex(k) : k \in 1 .. MaxSessionFiles}, SizeInputs)
  \/ WorkerTakes
  \/ WorkerGenerates
  \/ WorkerWrites
  \/ Sent

SpecThumbnails ==
  /\ InitFiles
  /\ [][NextThumbnails]_vars
  /\ WF_vars(Sent)
  /\ SF_vars(WorkerTakes)
  /\ SF_vars(WorkerGenerates)
  /\ SF_vars(WorkerWrites)

(***************************************************************************)
(* SpecWorker: the worker with its surroundings.  It starts in a state     *)
(* SpecUploads reaches: a has uploaded an image and b a file, and the job  *)
(* of the image is in the queue.  Jobs are added to the queue from outside *)
(* too, originals are removed from the storage directory, and a generation *)
(* or a write of a rendition can fail.                                     *)
(***************************************************************************)
InitWorker ==
  /\ RegisteredUsers
  /\ files = <<[userId |-> Uid(1), name |-> StrAbc, type |-> "image",
                isPublic |-> JsFalse, parentId |-> Num(0), localPath |-> Path(1)],
               [userId |-> Uid(2), name |-> StrAbc, type |-> "file",
                isPublic |-> JsFalse, parentId |-> Num(0), localPath |-> Path(2)]>>
  /\ tokens = {[key |-> AuthKey(Tok(k)), value |-> UHex(k), expiresAt |-> TokenTTL] :
                 k \in 1 .. 2}
  /\ nextToken = 3
  /\ now = 0
  /\ storage = {[path |-> Path(1), bytes |-> Base64Decode(B64(1))],
                [path |-> Path(2), bytes |-> Base64Decode(B64(2))]}
  /\ nextPath = 3
  /\ fileQueue = <<[fileId |-> Oid(1), userId |-> UHex(1)]>>
  /\ reqs = [s \in Slots |-> Idle]
  /\ res = NoRes

NextWorker ==
  \/ \E job \in JobInputs : fileQueueAdd(job)
  \/ \E k \in 1 .. 2 : storageRemove(Path(k))
  \/ WorkerStep
  \/ \E s \in Slots, n \in 1 .. Len(Widths) : workerWriteFails(s, n)
  \/ Sent

SpecWorker == InitWorker /\ [][NextWorker]_vars

(***************************************************************************)
(* Properties.                                                             *)
(***************************************************************************)
\* The caller a token resolves to (the users _id as a string), UNDEF for
\* a token the store does not hold.
Caller(token) == RedisGet(AuthKey(token))

\* A token v4() has generated.
Issued(token) == token[1] = "tok" /\ token[2] < nextToken

ProtectedOps ==
  {"getDisconnect", "getMe", "postUpload", "getShow", "getIndex",
   "putPublish", "putUnpublish"}

\* This step is the start of a protected operation called with token:
\* the operation answers at once, or it goes on to await a store access.
StartsProtected(token) ==
  \/ /\ res'.op \in ProtectedOps
     /\ res'.in[1] = token
     /\ reqs' = reqs
  \/ \E s \in Slots :
       /\ reqs[s] = Idle
       /\ reqs'[s].op \in {"postUpload", "putPublish", "putUnpublish"}
       /\ reqs'[s].token = token

StoresUnchanged ==
  UNCHANGED <<users, files, tokens, storage, nextPath, fileQueue, userQueue, reqs>>

Unauthorized(r) == r.status = 401 /\ r.error = "Unauthorized" /\ r.body = <<>>
NotFound(r) == r.status = 404 /\ r.error = "Not found" /\ r.body = <<>>

\* C1: once a Logout of a token has succeeded the token store never holds
\* the token again, whatever logins and logouts follow, and every operation
\* started with it from then on fails Unauthorized; a ReadContent with it
\* is answered as a ReadContent without a token.
C1_LoggedOutTokenStaysInvalid ==
  [][/\ \A t \in TokenInputs :
          (res'.op = "getDisconnect" /\ res'.status = 204 /\ res'.in[1] = t)
            => (Issued(t) /\ ~Truthy(Caller(t))')
     /\ \A t \in TokenInputs :
          (Issued(t) /\ ~Truthy(Caller(t))) =>
            /\ ~Truthy(Caller(t))'
            /\ StartsProtected(t) => Unauthorized(res')
            /\ (res'.op = "getFile" /\ res'.in[1] = t) =>
                 LET anonymous == getFileResponse(UNDEF, res'.in[2], res'.in[3])
                 IN /\ res'.status = anonymous.status
                    /\ res'.error = anonymous.error
                    /\ res'.body = anonymous.body
                    /\ (res'.status = 200 =>
                          Truthy(files[FindFileById(ToId(res'.in[2]))].isPublic))
    ]_vars

\* Tok(1) was logged out (it has not expired: the clock has not moved), the
\* user then logged in again as Tok(2), and an operation with Tok(1) is
\* answered Unauthorized.
C1_Witness ==
  /\ now = 0
  /\ Issued(Tok(1)) /\ ~Truthy(Caller(Tok(1)))
  /\ Truthy(Caller(Tok(2)))
  /\ res.op = "getShow" /\ res.in[1] = Tok(1) /\ Unauthorized(res)

\* C2 (as claimed): a Login with the email and password of a user who was
\* registered with a fresh email succeeds and returns a token that resolves
\* to that user, and WhoAmI with a valid token returns the id and email of
\* the user the token was issued to.
C2_LoginAfterRegister ==
  /\ (res.op = "getConnect" /\ Len(res.in) = 2) =>
       \A k \in UserIndexes :
         (/\ users[k].email = res.in[1]
          /\ users[k].password = sha1(res.in[2])
          /\ \A j \in UserIndexes : users[j].email = res.in[1] => j = k)
         => /\ res.status = 200
            /\ Caller(res.body[1]) = OidToString(Uid(k))
  /\ (res.op = "getMe" /\ res.status = 200) =>
       /\ res.body[1] = Caller(res.in[1])
       /\ res.body[2] = users[FindUserById(NewObjectId(res.body[1]))].email

\* C3 (as claimed): no two user records have the same email, and a
\* registration that succeeded left exactly one record with its email.
C3_EmailsUnique ==
  /\ \A i, j \in UserIndexes : users[i].email = users[j].email => i = j
  /\ (res.op = "postNew" /\ res.status = 400 /\ res.error = "Already exist")
       => \E k \in UserIndexes : users[k].email = res.in[1]

\* C4: a protected operation called with a token the token store does not
\* hold (missing, unknown, expired or logged out) is answered Unauthorized,
\* whatever else is wrong with the request, and changes no store.
C4_InvalidTokenUnauthorized ==
  [][\A t \in TokenInputs :
       (~Truthy(Caller(t)) /\ StartsProtected(t))
         => (Unauthorized(res') /\ StoresUnchanged)]_vars

\* A POST /files without a name, with a token that was logged out, is
\* answered Unauthorized while the stores hold a file and its bytes.
C4_Witness ==
  /\ res.op = "postUpload" /\ Unauthorized(res)
  /\ res.in[1] = Tok(1) /\ Issued(Tok(1)) /\ now = 0
  /\ ~Truthy(res.in[2])
  /\ files # <<>> /\ storage # {}

\* The document an id names, 0 when it names none.
Node(id) == FindFileById(ToId(id))

\* The caller of a request with this token is not the owner of document k.
NotOwner(token, k) == Caller(token) # OidToString(files[k].userId)

C6_AnonymousReadFollowsVisibility ==
  /\ [](res.op = "getFile" =>
          LET k == Node(res.in[2])
          IN (/\ k # 0
              /\ files[k].type \in {"file", "image"}
              /\ ExistsSync(files[k].localPath)
              /\ res.in[3] = UNDEF
              /\ NotOwner(res.in[1], k))
             => IF files[k].isPublic = JsTrue
                THEN res.status = 200 /\ res.body = <<ReadFile(files[k].localPath)>>
                ELSE NotFound(res))
  /\ [][\A s \in Slots :
          (reqs[s] = Idle /\ reqs'[s].op \in {"putPublish", "putUnpublish"})
            => files'[reqs'[s]._id[2]].isPublic =
                 IF reqs'[s].op = "putPublish" THEN JsTrue ELSE JsFalse]_vars

\* A file is read without a token, and found, while the response of the
\* publish that made it public is still to come.
C6_Witness ==
  /\ res.op = "getFile" /\ res.status = 200 /\ res.in[1] = UNDEF
  /\ \E s \in Slots : reqs[s].op = "putPublish" /\ OidToString(reqs[s]._id) = res.in[2]

\* C7: a step changes isPublic of a document only when it is the update of
\* a publish or unpublish called with a token of the owner of the document;
\* a publish or unpublish answered NotFound changes no document, and no
\* step changes another field of a document or removes one.
C7_IsPublicFrame ==
  [][/\ Len(files') >= Len(files)
     /\ \A k \in FileIndexes :
          /\ files'[k] = [files[k] EXCEPT !.isPublic = files'[k].isPublic]
          /\ files'[k].isPublic # files[k].isPublic =>
               \E s \in Slots :
                 /\ reqs[s] = Idle
                 /\ reqs'[s].op \in {"putPublish", "putUnpublish"}
                 /\ reqs'[s]._id = Oid(k)
                 /\ Caller(reqs'[s].token) = OidToString(files[k].userId)
     /\ (res'.op \in {"putPublish", "putUnpublish"} /\ res'.status # 200)
          => files' = files
     /\ (res'.op \in {"putPublish", "putUnpublish"} /\ Truthy(Caller(res'.in[1]))
         /\ reqs' = reqs)
          => (NotFound(res') /\ (Node(res'.in[2]) = 0 \/ NotOwner(res'.in[1], Node(res'.in[2]))))
    ]_vars

\* A publish of an existing node with the valid token of a user who does
\* not own it is answered NotFound.
C7_Witness ==
  /\ res.op = "putPublish" /\ NotFound(res)
  /\ Truthy(Caller(res.in[1]))
  /\ Node(res.in[2]) # 0
  /\ ~Truthy(files[Node(res.in[2])].isPublic)

\* C8: Get returns a node only to the user who owns it; for a node of
\* another user it answers as for an id that names no node.
C8_GetIsScopedToOwner ==
  (res.op = "getShow" /\ Truthy(Caller(res.in[1]))) =>
    LET k == Node(res.in[2])
    IN IF k # 0 /\ ~NotOwner(res.in[1], k)
       THEN res.status = 200 /\ res.body = formatFileDocument(k)
       ELSE NotFound(res)

\* A Get of an existing node with the valid token of another user.
C8_Witness ==
  /\ res.op = "getShow" /\ NotFound(res)
  /\ Truthy(Caller(res.in[1]))
  /\ Node(res.in[2]) # 0

\* The documents of a user under the root, in creation order.
RootNodesOf(userId) ==
  SelectSeq([k \in FileIndexes |-> k],
            LAMBDA k : files[k].parentId = Num(0) /\ OidToString(files[k].userId) = userId)

\* C9 (as claimed): List with parentId 0 (or none) and page 0 (or none)
\* returns the nodes the caller created under the root, in creation order,
\* when they are at most 20.
C9_ListReturnsRootNodes ==
  (/\ res.op = "getIndex" /\ res.status = 200
   /\ res.in[2] \in {UNDEF, Str0}
   /\ res.in[3] \in {UNDEF, Digits(0)}
   /\ Len(RootNodesOf(Caller(res.in[1]))) <= MAX_PAGE_SIZE)
  => res.body = [i \in 1 .. Len(RootNodesOf(Caller(res.in[1]))) |->
                   formatFileDocument(RootNodesOf(Caller(res.in[1]))[i])]

\* The parent a client means by the parentId of a List: the root by 0 or
\* by none, the node an id names otherwise.
MeantParent(parentIdIn) ==
  IF parentIdIn \in {UNDEF, Str0} THEN Num(0) ELSE ToId(parentIdIn)

\* The documents of a user under a parent, by ascending id.
ChildrenOf(userId, parent) ==
  SelectSeq([k \in FileIndexes |-> k],
            LAMBDA k : files[k].parentId = parent /\ OidToString(files[k].userId) = userId)

\* C10 (as claimed): List returns the elements page*20 .. page*20+19 of the
\* caller's nodes with that parentId by ascending id, so at most 20 nodes,
\* and none when the page starts at or beyond their number.
C10_ListWindow ==
  (res.op = "getIndex" /\ res.status = 200) =>
    LET all == ChildrenOf(Caller(res.in[1]), MeantParent(res.in[2]))
        first == ParsePage(res.in[3]) * MAX_PAGE_SIZE + 1
        last == IF Len(all) < first + MAX_PAGE_SIZE - 1
                THEN Len(all) ELSE first + MAX_PAGE_SIZE - 1
    IN /\ Len(res.body) <= MAX_PAGE_SIZE
       /\ res.body = [i \in 1 .. (IF last < first THEN 0 ELSE last - first + 1) |->
                        formatFileDocument(all[first + i - 1])]

\* A POST /files with a valid token whose name, type and data pass their
\* checks.
OtherwiseValidUpload(r) ==
  /\ r.op = "postUpload"
  /\ Truthy(Caller(r.in[1]))
  /\ Truthy(r.in[2])
  /\ r.in[3] \in FileTypes
  /\ (r.in[3] = "folder" \/ Truthy(r.in[6]))

\* C11 (as claimed): an otherwise valid CreateNode whose parentId names a
\* node of type file or image is answered 'Parent is not a folder', and one
\* whose parentId is not the root (0, or none) and names no node is
\* answered 'Parent not found'.
C11_ParentChecked ==
  OtherwiseValidUpload(res) =>
    LET k == Node(res.in[4])
    IN /\ (k # 0 /\ files[k].type \in {"file", "image"})
            => (res.status = 400 /\ res.error = "Parent is not a folder")
       /\ (res.in[4] \notin {UNDEF, Num(0)} /\ k = 0)
            => (res.status = 400 /\ res.error = "Parent not found")

\* C12 (as claimed): the parentId of every document is the root (0) or the
\* _id of a document of type folder.
C12_ParentIsRootOrFolder ==
  \A k \in FileIndexes :
    \/ files[k].parentId = Num(0)
    \/ /\ FindFileById(files[k].parentId) # 0
       /\ files[FindFileById(files[k].parentId)].type = "folder"

\* The slot in which this step starts (Idle to pending) or ends (pending to
\* Idle) the insert of a POST /files, as a set of at most one slot.
UploadStarts == {s \in Slots : reqs[s] = Idle /\ reqs'[s].op = "postUpload"}
UploadInserts == {s \in Slots : reqs[s].op = "postUpload" /\ reqs'[s] = Idle}

\* C13: a document has a localPath exactly when its type is file or image,
\* no two documents have the same localPath, nothing is stored at the
\* localPath of a folder, and neither step of a CreateNode of type folder
\* writes to the storage directory or adds a job.
C13_LocalPathOfFilesOnly ==
  /\ [](\A k \in FileIndexes :
          /\ (files[k].localPath # UNDEF) <=> (files[k].type \in {"file", "image"})
          /\ files[k].type = "folder" => ~ExistsSync(files[k].localPath)
          /\ \A j \in FileIndexes :
               (j # k /\ files[k].localPath # UNDEF)
                 => files[j].localPath # files[k].localPath)
  /\ [][/\ \A s \in UploadStarts :
             reqs'[s].doc.type = "folder" => UNCHANGED <<storage, nextPath, fileQueue>>
        /\ \A s \in UploadInserts :
             reqs[s].doc.type = "folder" =>
               /\ UNCHANGED <<storage, nextPath, fileQueue>>
               /\ files' = Append(files, reqs[s].doc)]_vars

\* A folder was created after a file: the storage directory holds the bytes
\* of the file and nothing else.
C13_Witness ==
  /\ res.op = "postUpload" /\ res.status = 201 /\ res.in[3] = "folder"
  /\ Len(files) = 2 /\ files[2].type = "folder" /\ files[1].type = "file"
  /\ Cardinality(storage) = 1

\* The localPaths of the documents and of the documents to be inserted.
LocalPaths ==
  {files[k].localPath : k \in {j \in FileIndexes : files[j].type # "folder"}}
  \cup {reqs[s].doc.localPath :
          s \in {z \in Slots : reqs[z].op = "postUpload" /\ reqs[z].doc.type # "folder"}}

\* C14: the bytes decoded from the data of a CreateNode of type file or
\* image are at the localPath of its document before the document is
\* inserted, no step changes or removes the bytes at a localPath, and a
\* ReadContent without size by the owner returns the bytes at the localPath.
C14_RoundTrip ==
  /\ [](/\ \A s \in Slots :
             (reqs[s].op = "postUpload" /\ reqs[s].doc.type # "folder") =>
               /\ ExistsSync(reqs[s].doc.localPath)
               /\ ReadFile(reqs[s].doc.localPath) = Base64Decode(reqs[s].in[6])
        /\ (res.op = "postUpload" /\ res.status = 201 /\ res.in[3] # "folder") =>
             /\ ExistsSync(files[Node(res.body[1])].localPath)
             /\ ReadFile(files[Node(res.body[1])].localPath) = Base64Decode(res.in[6])
        /\ (res.op = "getFile" /\ res.in[3] = UNDEF /\ Node(res.in[2]) # 0) =>
             LET k == Node(res.in[2])
             IN (files[k].type # "folder" /\ ~NotOwner(res.in[1], k))
                  => /\ res.status = 200
                     /\ res.body = <<ReadFile(files[k].localPath)>>)
  /\ [][\A p \in LocalPaths :
          /\ ExistsSync(p)'
          /\ ReadFile(p)' = ReadFile(p)]_vars

\* The owner reads the file uploaded with the second data, after the worker
\* has written the renditions of an image: the bytes are those of the data.
C14_Witness ==
  /\ res.op = "getFile" /\ res.status = 200 /\ res.in[3] = UNDEF
  /\ res.body = <<Base64Decode(B64(2))>>
  /\ \E f \in storage : f.path[3] # 0

\* The document a job of the thumbnail queue names, 0 when it names none.
JobFile(job) == FindFileByIdAndUser(ToId(job.fileId), ToId(job.userId))

\* C15: the insert of a CreateNode of type image adds one job, with the _id
\* of the inserted document and the caller, in the step that inserts the
\* document; no other step adds a job; every job in the queue names an
\* image of its userId whose bytes are on storage, and the worker never
\* fails a job at its lookup.
C15_JobsNameStoredImages ==
  /\ [](/\ \A i \in 1 .. Len(fileQueue) :
             /\ JobFile(fileQueue[i]) # 0
             /\ files[JobFile(fileQueue[i])].type = "image"
             /\ ExistsSync(files[JobFile(fileQueue[i])].localPath)
        /\ ~(res.op = "fileQueue.process"
             /\ res.error \in {"Missing fileId", "Missing userId", "File not found"}))
  /\ [][/\ \A s \in UploadInserts :
             /\ files' = Append(files, reqs[s].doc)
             /\ fileQueue' =
                  IF reqs[s].doc.type = "image"
                  THEN Append(fileQueue, [fileId |-> Oid(Len(files')),
                                          userId |-> OidToString(reqs[s].doc.userId)])
                  ELSE fileQueue
        /\ UploadInserts = {} => Len(fileQueue') <= Len(fileQueue)]_vars

\* The worker has taken the job of the first image and found it, while the
\* job of the second image is in the queue.
C15_Witness ==
  /\ \E s \in Slots : reqs[s].op = "thumbnail"
  /\ Len(fileQueue) = 1
  /\ fileQueue[1].fileId = Oid(2)

\* A rendition of document k exists on storage.
HasRendition(k) ==
  \E sz \in IMG_SIZES : ExistsSync(SizedPath(files[k].localPath, sz))

\* C16: when the response of a CreateNode of type image is sent, its job is
\* in the queue and no rendition of the image exists; a ReadContent of an
\* image, by a caller who may read it, with a size whose rendition is not
\* on storage fails NotFound, and one without size returns the original.
C16_CreateDoesNotWaitForWorker ==
  /\ (res.op = "postUpload" /\ res.status = 201 /\ res.in[3] = "image") =>
       /\ fileQueue # <<>>
       /\ fileQueue[Len(fileQueue)].fileId = ToId(res.body[1])
       /\ ~HasRendition(Node(res.body[1]))
  /\ (res.op = "getFile" /\ Node(res.in[2]) # 0) =>
       LET k == Node(res.in[2])
       IN (/\ files[k].type = "image"
           /\ (Truthy(files[k].isPublic) \/ ~NotOwner(res.in[1], k)))
          => /\ (res.in[3] \in IMG_SIZES /\ ~ExistsSync(SizedPath(files[k].localPath, res.in[3])))
                  => NotFound(res)
             /\ res.in[3] = UNDEF
                  => (res.status = 200 /\ res.body = <<ReadFile(files[k].localPath)>>)

\* The owner of an image asks for its rendition of size 250 while the job
\* of the image is still in the queue, and is answered NotFound.
C16_Witness ==
  /\ res.op = "getFile" /\ NotFound(res) /\ res.in[3] = Digits(250)
  /\ Node(res.in[2]) # 0
  /\ files[Node(res.in[2])].type = "image"
  /\ ~NotOwner(res.in[1], Node(res.in[2]))
  /\ ~HasRendition(Node(res.in[2]))
  /\ \E i \in 1 .. Len(fileQueue) : fileQueue[i].fileId = ToId(res.in[2])

\* The three renditions of document k exist on storage.
AllRenditions(k) ==
  /\ k \in FileIndexes
  /\ \A sz \in IMG_SIZES : ExistsSync(SizedPath(files[k].localPath, sz))

\* C17: once the document of an image is inserted, its three renditions
\* eventually exist (the worker runs and generation does not fail); they
\* then stay, and a ReadContent with size 250 by a caller who may read the
\* image returns the rendition of width 250, which is stored at a path
\* other than those of the original and of the renditions 100 and 500 and
\* is not the original's bytes.
C17_RenditionsEventually ==
  /\ \A k \in 1 .. MaxFiles :
       (k \in FileIndexes /\ files[k].type = "image") ~> AllRenditions(k)
  /\ [][\A k \in FileIndexes :
          (files[k].type = "image" /\ AllRenditions(k)) => AllRenditions(k)']_vars
  /\ [](res.op = "getFile" /\ Node(res.in[2]) # 0 =>
          LET k == Node(res.in[2])
              localPath == files[k].localPath
          IN (/\ files[k].type = "image"
              /\ AllRenditions(k)
              /\ res.in[3] = Digits(250)
              /\ (Truthy(files[k].isPublic) \/ ~NotOwner(res.in[1], k)))
             => /\ res.status = 200
                /\ res.body = <<ReadFile(SizedPath(localPath, Digits(250)))>>
                /\ res.body = <<imageThumbnail(localPath, 250)>>
                /\ res.body # <<ReadFile(localPath)>>
                /\ SizedPath(localPath, Digits(250)) \notin
                     {localPath, SizedPath(localPath, Digits(100)),
                      SizedPath(localPath, Digits(500))})

\* The rendition of width 250 of an image is read after the worker wrote it.
C17_Witness ==
  /\ res.op = "getFile" /\ res.status = 200 /\ res.in[3] = Digits(250)
  /\ Node(res.in[2]) # 0
  /\ files[Node(res.in[2])].type = "image"
  /\ AllRenditions(Node(res.in[2]))
  /\ fileQueue = <<>>

\* This step is a Login that succeeded, a Logout that succeeded.
LoginSucceeds == res'.op = "getConnect" /\ res'.status = 200
LogoutSucceeds == res'.op = "getDisconnect" /\ res'.status = 204

\* C18: an entry of the token store is created by a Login that succeeds,
\* with its expiry 24 hours after the Login; no step changes the expiry of
\* an entry; an entry goes only by the Logout of its token or when its
\* expiry has come; and a step that is no Login, no Logout and no passing of
\* time leaves the token store as it is.
C18_ExpiryIsAbsolute ==
  /\ [](\A e \in tokens : now < e.expiresAt /\ e.expiresAt <= now + TokenTTL)
  /\ [][/\ \A e \in tokens :
             \/ e \in tokens'
             \/ /\ LogoutSucceeds
                /\ e.key = AuthKey(res'.in[1])
                /\ \A e2 \in tokens' : e2.key # e.key
             \/ /\ now' > now
                /\ now' >= e.expiresAt
                /\ \A e2 \in tokens' : e2.key # e.key
        /\ \A e \in tokens' \ tokens :
             /\ LoginSucceeds
             /\ e.key = AuthKey(res'.body[1])
             /\ ~RedisHas(e.key)
             /\ e.expiresAt = now + TokenTTL
        /\ Cardinality(tokens' \ tokens) <= 1
        /\ now' > now => tokens' = {e \in tokens : now' < e.expiresAt}
        /\ LoginSucceeds => (Cardinality(tokens' \ tokens) = 1 /\ tokens \subseteq tokens')
        /\ tokens' # tokens => (LoginSucceeds \/ LogoutSucceeds \/ now' > now)]_vars

\* Half a lifetime after its Login a token answers a WhoAmI while its user
\* has logged in again: the expiry of the first token is still 24 hours
\* after its Login, the expiry of the second is half a lifetime later.
C18_Witness ==
  /\ now = TickStep
  /\ res.op = "getMe" /\ res.status = 200 /\ res.in[1] = Tok(1)
  /\ \E e \in tokens : e.key = AuthKey(Tok(1)) /\ e.expiresAt = TokenTTL
  /\ \E e \in tokens :
       /\ e.key = AuthKey(Tok(2))
       /\ e.value = Caller(Tok(1))
       /\ e.expiresAt = TickStep + TokenTTL

\* C19: a Login that succeeds returns a token v4() has not generated
\* before, adds it and removes no token; a token resolves to one user, the
\* same as long as it is held; a Logout removes its token and no other.
C19_SeveralTokens ==
  /\ [](\A e1, e2 \in tokens :
          /\ e1.key = e2.key => e1 = e2
          /\ FindUserById(ToId(e1.value)) # 0)
  /\ [][/\ LoginSucceeds =>
             /\ ~Issued(res'.body[1])
             /\ ~RedisHas(AuthKey(res'.body[1]))
             /\ tokens \subseteq tokens'
             /\ \E e \in tokens' : e.key = AuthKey(res'.body[1])
        /\ \A e1 \in tokens, e2 \in tokens' : e1.key = e2.key => e1.value = e2.value
        /\ LogoutSucceeds =>
             tokens' = {e \in tokens : e.key # AuthKey(res'.in[1])}]_vars

\* A user logs in a second time: the token of the first Login and the new
\* one both resolve to the user.
C19_Witness ==
  /\ res.op = "getConnect" /\ res.status = 200 /\ res.body = <<Tok(2)>>
  /\ Truthy(Caller(Tok(1)))
  /\ Caller(Tok(1)) = Caller(Tok(2))

\* C20 (as claimed): a Login whose email and password are not those of a
\* user, the email being registered or not, is answered Unauthorized (and
\* so creates no token).
C20_LoginFailureUniform ==
  (/\ res.op = "getConnect"
   /\ Len(res.in) = 2
   /\ ~\E k \in UserIndexes :
         users[k].email = res.in[1] /\ users[k].password = sha1(res.in[2]))
  => Unauthorized(res)

\* The runs of the worker that end in this step, and the paths of the
\* renditions of a localPath.
RunEnds == {s \in Slots : reqs[s].op = "thumbnail" /\ reqs'[s] = Idle}
RenditionPaths(localPath) == {Rendition(localPath, Widths[i]) : i \in 1 .. Len(Widths)}

\* The files this step writes or changes in the storage directory.
Written == storage' \ storage

\* C25: a job taken from the queue that lacks fileId or userId, or whose
\* fileId and userId together name no document, or whose document's
\* localPath is not on storage, fails in the step that takes it: nothing is
\* written and no run starts.  A run starts only for a document whose owner
\* is the userId of the job, and a rendition is written only by a run.
C25_BadJobsFail ==
  [][/\ Len(fileQueue') < Len(fileQueue) =>
          LET job == Head(fileQueue)
              k == JobFile(job)
          IN IF \/ ~Truthy(job.fileId)
                \/ ~Truthy(job.userId)
                \/ k = 0
                \/ ~ExistsSync(files[k].localPath)
             THEN /\ res'.op = "fileQueue.process"
                  /\ res'.error \in {"Missing fileId", "Missing userId", "File not found"}
                  /\ UNCHANGED <<storage, reqs, files>>
             ELSE /\ UNCHANGED <<storage, files>>
                  /\ \E s \in Slots :
                       /\ reqs[s] = Idle
                       /\ reqs'[s].op = "thumbnail"
                       /\ reqs'[s].localPath = files[k].localPath
     /\ \A s \in Slots :
          (reqs[s] = Idle /\ reqs'[s].op = "thumbnail") =>
            /\ Len(fileQueue') < Len(fileQueue)
            /\ \E k \in FileIndexes :
                 /\ files[k].localPath = reqs'[s].localPath
                 /\ ToId(Head(fileQueue).fileId) = Oid(k)
                 /\ OidToString(files[k].userId) = Head(fileQueue).userId
     /\ \A f \in Written :
          f.path[3] # 0 =>
            \E s \in RunEnds : f.path \in RenditionPaths(reqs[s].localPath)]_vars

\* The job {fileId of a's image, userId of b} has failed with 'File not
\* found' while the image is on storage, and no rendition was written.
C25_Witness ==
  /\ res.op = "fileQueue.process" /\ res.error = "File not found"
  /\ res.in = <<Hex(1), UHex(2)>>
  /\ files[1].type = "image" /\ files[1].userId = Uid(1)
  /\ ExistsSync(files[1].localPath)
  /\ ~HasRendition(1)

\* C26: a run of the worker changes no document and changes or removes no
\* file that is on storage; what it adds are renditions of its localPath at
\* the paths of the three widths, generated from the original; so a run for
\* a file whose three renditions are there leaves storage as it is.
C26_RerunChangesNothing ==
  [][\A s \in RunEnds :
       LET localPath == reqs[s].localPath
       IN /\ files' = files
          /\ storage \subseteq storage'
          /\ \A f \in Written :
               \E i \in 1 .. Len(Widths) :
                 /\ f.path = Rendition(localPath, Widths[i])
                 /\ f.bytes[1] = "thumbnail" /\ f.bytes[3] = Widths[i]
                 /\ ExistsSync(localPath) =>
                      f.bytes = <<"thumbnail", ReadFile(localPath)[2], Widths[i]>>
          /\ (\A p \in RenditionPaths(localPath) : ExistsSync(p)) => storage' = storage]_vars

\* A run for a's image has completed and its renditions are there, while a
\* second run for the same image has generated its renditions and is about
\* to write them.
C26_Witness ==
  /\ res.op = "fileQueue.process" /\ res.body = <<"completed">>
  /\ AllRenditions(1)
  /\ \E s \in Slots :
       /\ reqs[s].op = "thumbnail"
       /\ reqs[s].localPath = files[1].localPath
       /\ Len(reqs[s].thumbnails) = Len(Widths)

\* C28: a rendition is written only by a run that has generated all three;
\* a generation writes nothing, and neither does a run that ends before
\* that (a generation failed); a run
\* that ends after that has written all three, unless a write failed, and
\* then it has written those before the write that failed.
C28_GenerateBeforeWrite ==
  [][/\ \A f \in Written :
          f.path[3] # 0 =>
            \E s \in RunEnds :
              /\ Len(reqs[s].thumbnails) = Len(Widths)
              /\ f.path \in RenditionPaths(reqs[s].localPath)
     /\ \A s \in Slots :
          (reqs[s].op = "thumbnail" /\ reqs'[s].op = "thumbnail" /\ reqs'[s] # reqs[s])
            => storage' = storage
     /\ \A s \in RunEnds :
          LET localPath == reqs[s].localPath
              thumbnails == reqs[s].thumbnails
              stored(i) == [path |-> Rendition(localPath, Widths[i]), bytes |-> thumbnails[i]]
          IN IF Len(thumbnails) < Len(Widths)
             THEN storage' = storage /\ res'.error = "imageThumbnail"
             ELSE \/ /\ res'.error = ""
                     /\ \A i \in 1 .. Len(Widths) : stored(i) \in storage'
                  \/ /\ res'.error = "writeFileSync"
                     /\ \E n \in 1 .. Len(Widths) :
                          /\ \A i \in 1 .. (n - 1) : stored(i) \in storage'
                          /\ Written \subseteq {stored(i) : i \in 1 .. (n - 1)}]_vars

\* A generation has failed for a's image, whose original is on storage:
\* none of its renditions is there.
C28_Witness ==
  /\ res.op = "fileQueue.process" /\ res.error = "imageThumbnail"
  /\ res.in = <<files[1].localPath>>
  /\ ExistsSync(files[1].localPath)
  /\ ~HasRendition(1)

(***************************************************************************)
(* C21: the status check always produces a response, and the response      *)
(* reports the connection state of the document store and of the token     *)
(* store: true for a connected client, false for one that is not.  In the  *)
(* state a status request leads to, the request has been answered with 200 *)
(* and the body {redis, db} carries the two connection states.             *)
(***************************************************************************)
C21_StatusReportsConnections ==
  res.op = "getStatus" =>
    /\ res.status = 200
    /\ res.body = <<res.in[2], res.in[1]>>


(***************************************************************************)
(* C23: a publish or unpublish that succeeds returns the node with the     *)
(* isPublic it set, also when other publish and unpublish calls on the     *)
(* same node run between its update and its read: the body of a 200 of     *)
(* putPublish has isPublic true, that of putUnpublish isPublic false.      *)
(***************************************************************************)
C23_ReturnsWhatItSet ==
  /\ res.op = "putPublish" /\ res.status = 200 => res.body[5] = JsTrue
  /\ res.op = "putUnpublish" /\ res.status = 200 => res.body[5] = JsFalse

(***************************************************************************)
(* C22: CreateNode reports the first failing check in the order            *)
(* Unauthorized, MissingName, MissingType, MissingData, ParentNotFound,    *)
(* ParentNotAFolder, whatever else is wrong with the request, and a        *)
(* request that fails none of them creates the node.  A parentId other     *)
(* than the root (0, the default) is looked up.                            *)
(***************************************************************************)
\* What the request <<token, name, type, parentId, isPublic, data>> is to
\* be answered, the checks taken in the claimed order.
CreateNodeOutcome(in) ==
  LET k == Node(in[4])
  IN IF ~Truthy(Caller(in[1])) THEN <<401, "Unauthorized">>
     ELSE IF in[2] = UNDEF THEN <<400, "Missing name">>
     ELSE IF in[3] \notin FileTypes THEN <<400, "Missing type">>
     ELSE IF in[3] # "folder" /\ in[6] = UNDEF THEN <<400, "Missing data">>
     ELSE IF in[4] \notin {UNDEF, Num(0)} /\ k = 0 THEN <<400, "Parent not found">>
     ELSE IF in[4] \notin {UNDEF, Num(0)} /\ files[k].type # "folder"
     THEN <<400, "Parent is not a folder">>
     ELSE <<201, "">>

C22_FirstFailingCheck ==
  res.op = "postUpload" => <<res.status, res.error>> = CreateNodeOutcome(res.in)

\* The part of it that is about the checks that come before the
\* parent's: whatever the parentId, a request that fails one of them is
\* answered with the first it fails.
EarlierChecksInOrder ==
  res.op = "postUpload" /\ CreateNodeOutcome(res.in)[2] \in
      {"Unauthorized", "Missing name", "Missing type", "Missing data"}
    => <<res.status, res.error>> = CreateNodeOutcome(res.in)

(***************************************************************************)
(* C27: a CreateNode that is answered with an error (Unauthorized, Missing *)
(* name, Missing type, Missing data, Parent not found, Parent is not a     *)
(* folder) inserts no document, writes nothing to the storage directory    *)
(* and adds no thumbnail job: the files collection, the storage directory  *)
(* and the queue are as they were before the request.                      *)
(***************************************************************************)
C27_ErrorChangesNothing ==
  [][(res'.op = "postUpload" /\ res'.status \in {400, 401})
       => UNCHANGED <<files, storage, nextPath, fileQueue>>]_vars

\* A file with data under a node that is a file is answered 'Parent is not
\* a folder', in a system that has documents and stored files.
C27_Witness ==
  /\ res.op = "postUpload"
  /\ res.error = "Parent is not a folder"
  /\ res.in[3] = "file" /\ res.in[6] # UNDEF
  /\ files # <<>>
  /\ storage # {}

(***************************************************************************)
(* C24: reading the content of a folder that the caller may see (public,   *)
(* or owned by the caller) fails with 'A folder doesn't have content'; for *)
(* a file the size is ignored and the original is served; for an image the *)
(* rendition localPath_<size> is served when the size is 100, 250 or 500,  *)
(* and the original for every other size.  What is served is the content   *)
(* at that path, NotFound when nothing is there.                           *)
(***************************************************************************)
C24_ContentBySizeAndType ==
  (res.op = "getFile" /\ Node(res.in[2]) # 0) =>
    LET k == Node(res.in[2])
        size == res.in[3]
        visible == Truthy(files[k].isPublic) \/ ~NotOwner(res.in[1], k)
        served == IF /\ files[k].type = "image"
                     /\ size \in {Digits(100), Digits(250), Digits(500)}
                  THEN Rendition(files[k].localPath, size[2])
                  ELSE files[k].localPath
    IN visible =>
         /\ files[k].type = "folder" =>
              (res.status = 400 /\ res.error = "A folder doesn't have content")
         /\ files[k].type # "folder" =>
              IF ExistsSync(served)
              THEN res.status = 200 /\ res.body = <<ReadFile(served)>>
              ELSE NotFound(res)

\* An image whose renditions are written is read with size 300, and the
\* original is served.
C24_Witness ==
  /\ res.op = "getFile"
  /\ res.in[3] = Digits(300)
  /\ Node(res.in[2]) # 0
  /\ files[Node(res.in[2])].type = "image"
  /\ AllRenditions(Node(res.in[2]))
  /\ res.status = 200
  /\ res.body = <<ReadFile(files[Node(res.in[2])].localPath)>>

====
